---------------------------- MODULE Spec2Model ----------------------------
(***************************************************************************)
(* A model of the FreeWorld geocoding tools:                               *)
(*   geocode_nuforc.py                    the batch resolver               *)
(*   tools/export_missing_city_keys.py    export of the unresolved keys    *)
(*   tools/apply_missing_city_keys.py     apply of a filled override table *)
(*   tools/fill_and_apply_city_centers.py automatic fill and apply         *)
(*   tools/auto_fill_missing_city_keys.py in-place fill of the override    *)
(*                                        file, with a backup              *)
(*                                                                         *)
(* Text is a sequence of characters, each character a one-token string,    *)
(* so that lower(), upper(), strip(), the normalisers, substring tests and *)
(* difflib's similarity ratio are computed and not assumed.  Python's None *)
(* for a missing text field is the empty sequence: every place of the code *)
(* that reads a field tests it for truth or uses `x or ''`.                *)
(***************************************************************************)
EXTENDS Integers, Sequences, FiniteSets, TLC

VARIABLES
    \* ---- the resolver seen as a function (SpecFind, SpecCountry)
    gaz,        \* _cities: the gazetteer, a sequence of city records in iteration order
    _city_index,              \* (lowered name, country, admin) -> city
    _city_index_norm,         \* (normalised name, country, admin) -> city
    _country_city_names,      \* country -> (normalised name -> city)
    _largest_city_by_country, \* country -> city
    qcity,      \* the city argument of _find_coords
    qstate,     \* the state argument
    qcountry,   \* the country argument
    fpc,        \* "load", then "ask" before the call and "answered" after it
    fres,       \* the value _find_coords returned (or Raised)
    cres,       \* the country codes the two country resolvers returned
    \* ---- the batch and the override tools (SpecBatch)
    zip,        \* the rows of the CSV inside ZIP_PATH
    rows,       \* geocode_nuforc.py: rows, the in-memory row list
    pc,         \* the position of the pipeline
    idx,        \* the index of the row the running loop is at
    run,        \* the number of the batch run (1, 2, ...)
    total,      \* geocode_nuforc.py: total
    already_had,\* geocode_nuforc.py: already_had
    filled,     \* geocode_nuforc.py: filled
    nominatim_filled,
    q,          \* the query string of the external call in flight
    last,       \* what the last external call met
    log,        \* what the fallback loop did, in order: calls, returns, sleeps
    csvIn,      \* the rows the running batch read
    afterInternal, \* the rows as the internal loop of the running batch left them
    csvOut,     \* OUTPUT_CSV: NoFile, or the rows written
    prevOut,    \* OUTPUT_CSV as the previous run wrote it
    missingCsv, \* missing_city_keys.csv: NoFile, or its rows
    exported,   \* the keys the export wrote
    mapping,    \* apply_missing_city_keys.py: mapping
    applied,    \* apply_missing_city_keys.py: applied
    manualCsv,  \* ..._with_coords_manual_filled.csv: NoFile, or its rows
    autoApplied,\* fill_and_apply_city_centers.py: applied
    autoCsv,    \* ..._with_coords_auto_filled.csv: NoFile, or its rows
    \* ---- auto_fill_missing_city_keys.py on the file system (SpecBackup)
    fs,         \* file name -> NoFile or the rows of the file
    apc,        \* the position of the tool
    arows,      \* the rows the tool holds in memory
    arun,       \* the number of the run of the tool
    pre,        \* the content of the override file when the run started
    os          \* the platform: "posix" or "nt"

indexVars  == <<_city_index, _city_index_norm, _country_city_names,
                _largest_city_by_country>>
findVars   == <<gaz, indexVars, qcity, qstate, qcountry, fpc, fres, cres>>
batchVars  == <<zip, rows, pc, idx, run, total, already_had, filled,
                nominatim_filled, q, last, log, csvIn, afterInternal, csvOut,
                prevOut, missingCsv, exported, mapping, applied, manualCsv,
                autoApplied, autoCsv>>
backupVars == <<fs, apc, arows, arun, pre, os>>
vars       == <<findVars, batchVars, backupVars>>

-----------------------------------------------------------------------------
(***************************************************************************)
(* Characters.  ASCII in code-point order, then two non-ASCII letters:     *)
(* e_acute decomposes under NFKD into e and a combining mark, l_stroke     *)
(* has no decomposition.                                                   *)
(***************************************************************************)
LowerCase == <<"a","b","c","d","e","f","g","h","i","j","k","l","m",
               "n","o","p","q","r","s","t","u","v","w","x","y","z">>
UpperCase == <<"A","B","C","D","E","F","G","H","I","J","K","L","M",
               "N","O","P","Q","R","S","T","U","V","W","X","Y","Z">>
Digits    == <<"0","1","2","3","4","5","6","7","8","9">>

\* code-point order: space ! ( ) - . / 0-9 ? A-Z a-z, then the non-ASCII letters
CodePoints == <<" ", "!", "(", ")", "-", ".", "/">> \o Digits \o <<"?">>
              \o UpperCase \o LowerCase
              \o <<"E_acute", "e_acute", "L_stroke", "l_stroke">>

Range(s) == {s[i] : i \in DOMAIN s}

IndexOf(ch, s) == CHOOSE i \in DOMAIN s : s[i] = ch

Ord(ch) == IndexOf(ch, CodePoints)

LowerSet == Range(LowerCase)
UpperSet == Range(UpperCase)
DigitSet == Range(Digits)

IsSpace(ch)  == ch = " "
IsLowerAZ(ch) == ch \in LowerSet
IsDigit(ch)  == ch \in DigitSet
IsAscii(ch)  == ch \notin {"E_acute", "e_acute", "L_stroke", "l_stroke"}

\* str.lower() and str.upper(), one character
LowerCh(ch) ==
    IF ch \in UpperSet THEN LowerCase[IndexOf(ch, UpperCase)]
    ELSE IF ch = "E_acute" THEN "e_acute"
    ELSE IF ch = "L_stroke" THEN "l_stroke"
    ELSE ch

UpperCh(ch) ==
    IF ch \in LowerSet THEN UpperCase[IndexOf(ch, LowerCase)]
    ELSE IF ch = "e_acute" THEN "E_acute"
    ELSE IF ch = "l_stroke" THEN "L_stroke"
    ELSE ch

Lower(s) == [i \in DOMAIN s |-> LowerCh(s[i])]
Upper(s) == [i \in DOMAIN s |-> UpperCh(s[i])]

\* str.strip()
RECURSIVE LStrip(_)
LStrip(s) == IF s # <<>> /\ IsSpace(Head(s)) THEN LStrip(Tail(s)) ELSE s

RECURSIVE RStrip(_)
RStrip(s) ==
    IF s # <<>> /\ IsSpace(s[Len(s)]) THEN RStrip(SubSeq(s, 1, Len(s) - 1)) ELSE s

Strip(s) == RStrip(LStrip(s))

\* re.sub(r"\s+", ' ', s): every run of white space becomes one space
RECURSIVE CollapseSpaces(_)
CollapseSpaces(s) ==
    IF s = <<>> THEN <<>>
    ELSE IF IsSpace(Head(s))
         THEN <<" ">> \o CollapseSpaces(LStrip(s))
         ELSE <<Head(s)>> \o CollapseSpaces(Tail(s))

\* unicodedata.normalize('NFKD', s).encode('ascii', 'ignore').decode('ascii'):
\* the base letter of a decomposable character, nothing for any other non-ASCII one
AsciiFoldCh(ch) ==
    IF ch = "e_acute" THEN <<"e">>
    ELSE IF ch = "E_acute" THEN <<"E">>
    ELSE IF IsAscii(ch) THEN <<ch>>
    ELSE <<>>

RECURSIVE AsciiFold(_)
AsciiFold(s) == IF s = <<>> THEN <<>> ELSE AsciiFoldCh(Head(s)) \o AsciiFold(Tail(s))

KeepNorm(ch) == IsLowerAZ(ch) \/ IsDigit(ch) \/ IsSpace(ch)

\* geocode_nuforc.py: _normalize
_normalize(s) ==
    IF s = <<>> THEN <<>>
    ELSE Strip(CollapseSpaces(SelectSeq(Lower(AsciiFold(s)), KeepNorm)))

\* NFKD followed by the removal of the combining marks: a decomposable letter
\* becomes its base letter, every other character stays
StripMarksCh(ch) ==
    IF ch = "e_acute" THEN "e" ELSE IF ch = "E_acute" THEN "E" ELSE ch

KeepNorm2(ch) == IsLowerAZ(ch) \/ IsDigit(ch) \/ ch = " "

\* re.sub(r"[^a-z0-9 ]+", ' ', s): every run of other characters becomes one space
RECURSIVE DropOthers(_)
DropOthers(s) == IF s # <<>> /\ ~KeepNorm2(Head(s)) THEN DropOthers(Tail(s)) ELSE s

RECURSIVE SubOthers(_)
SubOthers(s) ==
    IF s = <<>> THEN <<>>
    ELSE IF KeepNorm2(Head(s))
         THEN <<Head(s)>> \o SubOthers(Tail(s))
         ELSE <<" ">> \o SubOthers(DropOthers(s))

\* tools/auto_fill_missing_city_keys.py and tools/fill_and_apply_city_centers.py: normalize
normalize(s) ==
    IF s = <<>> THEN <<>>
    ELSE LET t == Lower(Strip(s))
             u == [i \in DOMAIN t |-> StripMarksCh(t[i])]
         IN  Strip(CollapseSpaces(SubOthers(u)))

\* Python's `x in y` on two strings
IsSubstr(x, y) ==
    \E i \in 0..(Len(y) - Len(x)) : SubSeq(y, i + 1, i + Len(x)) = x

\* Python's x < y on two strings: lexicographic by code point
RECURSIVE StrLess(_, _)
StrLess(x, y) ==
    IF y = <<>> THEN FALSE
    ELSE IF x = <<>> THEN TRUE
    ELSE IF Head(x) = Head(y) THEN StrLess(Tail(x), Tail(y))
    ELSE Ord(Head(x)) < Ord(Head(y))

-----------------------------------------------------------------------------
(***************************************************************************)
(* difflib.  SequenceMatcher(a, b).ratio() is 2*M/T, M the number of       *)
(* matched characters (Ratcliff/Obershelp: the longest common block, the   *)
(* earliest in a and then the earliest in b among the longest, then the    *)
(* same to its left and to its right), T the two lengths together.  The    *)
(* ratio is kept as the pair <<2*M, T>> and compared by cross products.    *)
(* The strings here are far shorter than the 200 characters from which     *)
(* difflib starts to treat popular characters as junk.                     *)
(***************************************************************************)
Max(S) == CHOOSE x \in S : \A y \in S : y <= x
Min(S) == CHOOSE x \in S : \A y \in S : x <= y

\* the length of the longest common block of a and b that starts at a[i], b[j]
RECURSIVE BlockLen(_, _, _, _)
BlockLen(a, b, i, j) ==
    IF i <= Len(a) /\ j <= Len(b) /\ a[i] = b[j]
    THEN 1 + BlockLen(a, b, i + 1, j + 1)
    ELSE 0

\* SequenceMatcher.find_longest_match for a longest block of length k > 0: the
\* earliest start in a, and for it the earliest start in b
LongestAt(a, b, k) ==
    LET i == Min({x \in DOMAIN a : \E y \in DOMAIN b : BlockLen(a, b, x, y) = k})
    IN  <<i, Min({y \in DOMAIN b : BlockLen(a, b, i, y) = k}), k>>

\* SequenceMatcher.find_longest_match: <<i, j, k>>, k = 0 when nothing is common.
\* (A value used more than once is bound through a one-element set, here and
\* below, so that it is computed once.)
find_longest_match(a, b) ==
    LET lens == {BlockLen(a, b, i, j) : i \in DOMAIN a, j \in DOMAIN b}
    IN  IF \A n \in lens : n = 0 THEN <<1, 1, 0>>
        ELSE CHOOSE m \in {LongestAt(a, b, k) : k \in {Max(lens)}} : TRUE

\* the sum of the sizes of SequenceMatcher.get_matching_blocks(): the longest
\* block m, and the same to its left and to its right
RECURSIVE Matches(_, _)
MatchesAround(a, b, m) ==
    IF m[3] = 0 THEN 0
    ELSE m[3] + Matches(SubSeq(a, 1, m[1] - 1), SubSeq(b, 1, m[2] - 1))
              + Matches(SubSeq(a, m[1] + m[3], Len(a)), SubSeq(b, m[2] + m[3], Len(b)))

Matches(a, b) ==
    CHOOSE n \in {MatchesAround(t[1], t[2], t[3]) :
                     t \in {<<a, b, find_longest_match(a, b)>>}} : TRUE

\* SequenceMatcher.ratio() >= cutoff, the cutoff in hundredths; two empty
\* strings have ratio 1.0
RatioAtLeast(a, b, cutoff) ==
    IF Len(a) + Len(b) = 0 THEN TRUE
    ELSE 200 * Matches(a, b) >= cutoff * (Len(a) + Len(b))

\* ratio(a1, b) < ratio(a2, b)
RatioLess(a1, a2, b) ==
    LET n1 == IF Len(a1) + Len(b) = 0 THEN 1 ELSE 2 * Matches(a1, b)
        d1 == IF Len(a1) + Len(b) = 0 THEN 1 ELSE Len(a1) + Len(b)
        n2 == IF Len(a2) + Len(b) = 0 THEN 1 ELSE 2 * Matches(a2, b)
        d2 == IF Len(a2) + Len(b) = 0 THEN 1 ELSE Len(a2) + Len(b)
    IN  n1 * d2 < n2 * d1

NoMatch == <<"no match">>

\* difflib.get_close_matches(word, possibilities, n=1, cutoff): the possibility
\* with the largest (ratio, string) among those of ratio >= cutoff (good),
\* NoMatch when there is none.  The matcher's first sequence is the
\* possibility, its second the word.
BestOf(good, word) ==
    IF good = {} THEN NoMatch
    ELSE CHOOSE x \in good :
            \A y \in good \ {x} :
                RatioLess(y, x, word) \/ (~RatioLess(x, y, word) /\ StrLess(y, x))

GoodMatches(word, possibilities, cutoff) ==
    {x \in Range(possibilities) : RatioAtLeast(x, word, cutoff)}

get_close_matches(word, possibilities, cutoff) ==
    CHOOSE r \in {BestOf(t[1], t[2]) :
                     t \in {<<GoodMatches(word, possibilities, cutoff), word>>}} : TRUE

-----------------------------------------------------------------------------
(***************************************************************************)
(* Dictionaries.  A Python dict is a sequence of <<key, value>> pairs in   *)
(* insertion order: assigning to a key that is present replaces the value  *)
(* in place, assigning to a new key appends.  A value that may be None is  *)
(* a sequence of at most one element.                                      *)
(***************************************************************************)
DictHas(d, k) == \E i \in DOMAIN d : d[i][1] = k

\* d.get(k): <<v>>, or <<>> for None
DictGet(d, k) ==
    IF DictHas(d, k) THEN <<d[CHOOSE i \in DOMAIN d : d[i][1] = k][2]>> ELSE <<>>

\* d[k] = v
DictSet(d, k, v) ==
    IF DictHas(d, k)
    THEN [i \in DOMAIN d |-> IF d[i][1] = k THEN <<k, v>> ELSE d[i]]
    ELSE Append(d, <<k, v>>)

\* d.setdefault(k, v)
DictSetDefault(d, k, v) == IF DictHas(d, k) THEN d ELSE Append(d, <<k, v>>)

\* list(d.keys())
DictKeys(d) == [i \in DOMAIN d |-> d[i][1]]

-----------------------------------------------------------------------------
(***************************************************************************)
(* The reference data of geonamescache.  The countries are a fixed table   *)
(* of five of its entries; the cities are the variable gaz, so that the    *)
(* claims are checked for every gazetteer within the bounds.  A city is    *)
(* [id, name, countrycode, admin1code, latitude, longitude, population];   *)
(* latitude and longitude are whole degrees, population a natural number.  *)
(***************************************************************************)
\* geocode_nuforc.py: _countries, code -> [name, iso3], in iteration order
_countries ==
    <<<<<<"G","B">>, [name |-> <<"U","n","i","t","e","d"," ","K","i","n","g","d","o","m">>, iso3 |-> <<"G","B","R">>]>>,
      <<<<"O","M">>, [name |-> <<"O","m","a","n">>, iso3 |-> <<"O","M","N">>]>>,
      <<<<"P","E">>, [name |-> <<"P","e","r","u">>, iso3 |-> <<"P","E","R">>]>>,
      <<<<"T","D">>, [name |-> <<"C","h","a","d">>, iso3 |-> <<"T","C","D">>]>>,
      <<<<"U","S">>, [name |-> <<"U","n","i","t","e","d"," ","S","t","a","t","e","s">>, iso3 |-> <<"U","S","A">>]>>>>

\* the set of non-country values _map_country answers None for
NoCountryNames ==
    {<<"u","n","s","p","e","c","i","f","i","e","d">>,
     <<"i","n","t","e","r","n","a","t","i","o","n","a","l"," ","w","a","t","e","r","s">>,
     <<"i","n","t","e","r","n","a","t","o","n","a","l"," ","w","a","t","e","r","s">>,
     <<"a","t","l","a","n","t","i","c"," ","o","c","e","a","n">>,
     <<"p","u","e","r","t","o"," ","r","i","c","o","/","b","u","r","m","u","d","a"," ","(","b","e","t","w","e","e","n",")">>,
     <<"u","n","k","n","o","w","n">>}

\* _map_country: common
common ==
    <<<<<<"u","s","a">>, <<"U","S">>>>,
      <<<<"u","s">>, <<"U","S">>>>,
      <<<<"u",".","s",".">>, <<"U","S">>>>,
      <<<<"u","n","i","t","e","d"," ","s","t","a","t","e","s">>, <<"U","S">>>>,
      <<<<"u","n","i","t","e","d"," ","s","t","a","t","e","s"," ","o","f"," ","a","m","e","r","i","c","a">>, <<"U","S">>>>,
      <<<<"u","k">>, <<"G","B">>>>,
      <<<<"u","n","i","t","e","d"," ","k","i","n","g","d","o","m">>, <<"G","B">>>>,
      <<<<"e","n","g","l","a","n","d">>, <<"G","B">>>>,
      <<<<"s","c","o","t","l","a","n","d">>, <<"G","B">>>>,
      <<<<"w","a","l","e","s">>, <<"G","B">>>>,
      <<<<"s","o","u","t","h"," ","k","o","r","e","a">>, <<"K","R">>>>,
      <<<<"n","o","r","t","h"," ","k","o","r","e","a">>, <<"K","P">>>>>>

-----------------------------------------------------------------------------
(***************************************************************************)
(* geocode_nuforc.py: the country resolver, the indexes and _find_coords.  *)
(***************************************************************************)
\* the first code of _countries whose name or iso3 equals `name` ignoring case
RECURSIVE NameOrIso3Match(_, _)
NameOrIso3Match(name, n) ==
    IF n > Len(_countries) THEN <<>>
    ELSE LET code == _countries[n][1]
             data == _countries[n][2]
         IN  IF Lower(name) = Lower(data.name) THEN code
             ELSE IF Upper(name) = Upper(data.iso3) THEN code
             ELSE NameOrIso3Match(name, n + 1)

\* _map_country with a closest-name fallback (difflib, cutoff 0.8) before None
_map_country_fuzzy(name) ==
    IF name = <<>> THEN <<>>
    ELSE LET lower == Lower(Strip(name))
             names == [i \in DOMAIN _countries |-> Lower(_countries[i][2].name)]
             m     == get_close_matches(lower, names, 80)
         IN  IF lower \in NoCountryNames THEN <<>>
             ELSE IF DictHas(_countries, name) THEN name
             ELSE IF NameOrIso3Match(name, 1) # <<>> THEN NameOrIso3Match(name, 1)
             ELSE IF DictHas(common, lower) THEN DictGet(common, lower)[1]
             ELSE IF m # NoMatch THEN NameOrIso3Match(m, 1)
             ELSE <<>>

\* _map_country: the ISO alpha-2 code of a country string, <<>> for None
_map_country(name) ==
    IF name = <<>> THEN <<>>
    ELSE LET lower == Lower(Strip(name))
         IN  IF lower \in NoCountryNames THEN <<>>
             ELSE IF DictHas(_countries, name) THEN name
             ELSE IF NameOrIso3Match(name, 1) # <<>> THEN NameOrIso3Match(name, 1)
             ELSE IF DictHas(common, lower) THEN DictGet(common, lower)[1]
             ELSE <<>>

\* lines 47-51, the body of the loop over the cities for one index: the entry
\* with the admin code is assigned, the entry without it is set if absent
IndexStep(d, c, kname) ==
    CHOOSE r \in {DictSetDefault(d1, <<kname, c.countrycode, <<>> >>, c) :
                     d1 \in {DictSet(d, <<kname, c.countrycode, c.admin1code>>, c)}} : TRUE

\* the loop that builds _city_index (names lowered, norm FALSE) and
\* _city_index_norm (names normalised, norm TRUE)
RECURSIVE BuildIndex(_, _, _)
BuildIndex(cities, norm, n) ==
    IF n = 0 THEN <<>>
    ELSE CHOOSE r \in {IndexStep(t[1], cities[n], t[2]) :
                          t \in {<<BuildIndex(cities, norm, n - 1),
                                   IF norm THEN _normalize(cities[n].name)
                                   ELSE Lower(cities[n].name)>>}} : TRUE

\* lines 59-61: by_country[nname] = c in the dict of the city's country
CountryNamesStep(d, c, nname) ==
    DictSet(d, c.countrycode,
            DictSet(IF DictHas(d, c.countrycode) THEN DictGet(d, c.countrycode)[1]
                    ELSE <<>>, nname, c))

\* _country_city_names: country -> (normalised name -> city), the last city of a
\* name kept
RECURSIVE BuildCountryCityNames(_, _)
BuildCountryCityNames(cities, n) ==
    IF n = 0 THEN <<>>
    ELSE CHOOSE r \in {CountryNamesStep(t[1], cities[n], t[2]) :
                          t \in {<<BuildCountryCityNames(cities, n - 1),
                                   _normalize(cities[n].name)>>}} : TRUE

\* BuildLargest with >= for >: the last city of the highest population is kept
RECURSIVE BuildLargestLastWins(_, _)
BuildLargestLastWins(cities, n) ==
    IF n = 0 THEN <<>>
    ELSE CHOOSE r \in
           {IF ~DictHas(d, cities[n].countrycode)
               \/ cities[n].population >= DictGet(d, cities[n].countrycode)[1].population
            THEN DictSet(d, cities[n].countrycode, cities[n])
            ELSE d : d \in {BuildLargestLastWins(cities, n - 1)}} : TRUE

\* _largest_city_by_country, lines 63-69: a city replaces the recorded one of
\* its country only when its population is strictly larger
RECURSIVE BuildLargest(_, _)
BuildLargest(cities, n) ==
    IF n = 0 THEN <<>>
    ELSE CHOOSE r \in
           {IF ~DictHas(d, cities[n].countrycode)
               \/ cities[n].population > DictGet(d, cities[n].countrycode)[1].population
            THEN DictSet(d, cities[n].countrycode, cities[n])
            ELSE d : d \in {BuildLargest(cities, n - 1)}} : TRUE

\* str() of a whole number
RECURSIVE StrNat(_)
StrNat(n) ==
    IF n < 10 THEN <<Digits[n + 1]>>
    ELSE StrNat(n \div 10) \o <<Digits[(n % 10) + 1]>>

Str(n) == IF n < 0 THEN <<"-">> \o StrNat(-n) ELSE StrNat(n)

\* _find_coords, lines 101-106: the code of the country string, or of the string
\* in upper case when the string itself has none
ResolveIso(country_name) ==
    IF _map_country(country_name) # <<>> THEN _map_country(country_name)
    ELSE _map_country(Upper(country_name))

\* lines 108-115: the admin code looked up for a state string
AdminOf(state) ==
    IF state = <<>> THEN <<>>
    ELSE IF Len(Strip(state)) <= 3 THEN Upper(Strip(state)) ELSE Strip(state)

\* lines 132-140: the first entry of _city_index_norm, in insertion order, of
\* the country whose name equals, contains or is contained in the normalised city
SubstringTier(ncity, iso) ==
    LET d    == _city_index_norm
        hits == {i \in DOMAIN d :
                    /\ d[i][1][2] = iso
                    /\ ncity # <<>>
                    /\ \/ d[i][1][1] = ncity
                       \/ IsSubstr(ncity, d[i][1][1])
                       \/ IsSubstr(d[i][1][1], ncity)}
    IN  IF hits = {} THEN <<>> ELSE <<d[Min(hits)][2]>>

\* lines 143-148: difflib's closest normalised name of the country, cutoff 0.78
CloseTier(ncity, iso) ==
    IF ~DictHas(_country_city_names, iso) THEN <<>>
    ELSE LET names == DictGet(_country_city_names, iso)[1]
             m     == get_close_matches(ncity, DictKeys(names), 78)
         IN  IF m = NoMatch THEN <<>> ELSE DictGet(names, m)

\* FindCityNorm with the lookup without admin code tried before the one with it
FindCityNormAdminLast(city, ncity, iso, admin) ==
    CHOOSE c \in
      {IF c5 = <<>> THEN DictGet(_largest_city_by_country, iso) ELSE c5 : c5 \in
      {IF c4 = <<>> /\ city # <<>> THEN CloseTier(ncity, iso) ELSE c4 : c4 \in
      {IF c3b = <<>> /\ city # <<>> THEN SubstringTier(ncity, iso) ELSE c3b : c3b \in
      {IF c3 = <<>> /\ city # <<>>
       THEN DictGet(_city_index_norm, <<ncity, iso, <<>> >>) ELSE c3 : c3 \in
      {IF c2 = <<>> /\ city # <<>>
       THEN DictGet(_city_index_norm, <<ncity, iso, admin>>) ELSE c2 : c2 \in
      {IF c1 = <<>>
       THEN DictGet(_city_index, <<Lower(city), iso, admin>>) ELSE c1 : c1 \in
      {IF city # <<>> THEN DictGet(_city_index, <<Lower(city), iso, <<>> >>)
       ELSE <<>>}}}}}}} : TRUE

\* lines 117-154 for a city whose normalised form is ncity: c after line 118
\* (c1), after 122 (c2), after 125 (c3), after 128 (c3b), after 140 (c4), after
\* 148 (c5) and after 154; each lookup is made only while c is None
FindCityNorm(city, ncity, iso, admin) ==
    CHOOSE c \in
      {IF c5 = <<>> THEN DictGet(_largest_city_by_country, iso) ELSE c5 : c5 \in
      {IF c4 = <<>> /\ city # <<>> THEN CloseTier(ncity, iso) ELSE c4 : c4 \in
      {IF c3b = <<>> /\ city # <<>> THEN SubstringTier(ncity, iso) ELSE c3b : c3b \in
      {IF c3 = <<>> /\ city # <<>>
       THEN DictGet(_city_index_norm, <<ncity, iso, <<>> >>) ELSE c3 : c3 \in
      {IF c2 = <<>> /\ city # <<>>
       THEN DictGet(_city_index_norm, <<ncity, iso, admin>>) ELSE c2 : c2 \in
      {IF c1 = <<>> /\ city # <<>>
       THEN DictGet(_city_index, <<Lower(city), iso, <<>> >>) ELSE c1 : c1 \in
      {DictGet(_city_index, <<Lower(city), iso, admin>>)}}}}}}} : TRUE

\* FindCity over FindCityNormAdminLast
FindCityAdminLast(city, iso, admin) ==
    CHOOSE c \in {FindCityNormAdminLast(city, n, iso, admin) :
                    n \in {_normalize(city)}} : TRUE

\* lines 117-154: the city _find_coords settles on, <<>> when c is None at line 156
FindCity(city, iso, admin) ==
    CHOOSE c \in {FindCityNorm(city, n, iso, admin) : n \in {_normalize(city)}} : TRUE

\* what a call of _find_coords that raises leaves behind: at line 157 c is None
\* and c['latitude'] raises TypeError
Raised == << <<"TypeError">> >>

\* lines 156-158: c['latitude'] raises TypeError when c is None
CoordsOrRaise(c) ==
    IF c = <<>> THEN Raised ELSE <<Str(c[1].latitude), Str(c[1].longitude)>>

\* _find_coords without the return of lines 105-106
_find_coords_ungated(city, state, country_name) ==
    CHOOSE r \in {CoordsOrRaise(FindCity(city, t[1], t[2])) :
                     t \in {<<ResolveIso(country_name), AdminOf(state)>>}} : TRUE

\* _find_coords: <<lat, lon>> as strings, or Raised
_find_coords(city, state, country_name) ==
    CHOOSE r \in {IF t[1] = <<>> THEN << <<>>, <<>> >>
                  ELSE CoordsOrRaise(FindCity(city, t[1], t[2])) :
                     t \in {<<ResolveIso(country_name), AdminOf(state)>>}} : TRUE

-----------------------------------------------------------------------------
(***************************************************************************)
(* The resolver as a function: a gazetteer is drawn, the module builds its *)
(* indexes, and _find_coords is called once with a drawn argument triple.  *)
(***************************************************************************)
MaxCities == 3

City(id, name, cc, admin, lat, lon, pop) ==
    [id |-> id, name |-> name, countrycode |-> cc, admin1code |-> admin,
     latitude |-> lat, longitude |-> lon, population |-> pop]

PE == <<"P","E">>
TD == <<"T","D">>
OM == <<"O","M">>

\* the cities a gazetteer is drawn from: equal names with different and with
\* empty admin codes, names equal only after normalisation, names that contain
\* or resemble another, equal populations, a second country
CityPool ==
    { City(1, <<"A","b">>,     PE, <<"0","1">>, 1, 11, 5),
      City(2, <<"A","b">>,     PE, <<>>,        2, 12, 5),
      City(3, <<"A",".","b">>, PE, <<"0","2">>, 3, 13, 7),
      City(4, <<"A","b","c">>, PE, <<"0","1">>, 4, 14, 7),
      City(5, <<"A","b">>,     TD, <<"0","1">>, -5, 15, 0),
      City(6, <<"B","c","d">>, PE, <<>>,        6, -16, 0) }

\* the sequences without repetition of at most n elements of S
RECURSIVE SeqsUpTo(_, _)
SeqsUpTo(S, n) ==
    IF n = 0 THEN {<<>>}
    ELSE LET shorter == SeqsUpTo(S, n - 1)
         IN  shorter \cup {Append(s, x) : s \in {t \in shorter : Len(t) = n - 1},
                                          x \in S}

NoRepeat(s) == \A i, j \in DOMAIN s : i # j => s[i] # s[j]

Gazetteers == {g \in SeqsUpTo(CityPool, MaxCities) : NoRepeat(g)}

CityInputs ==
    { <<>>, <<"A","B">>, <<"a","-","b">>, <<"a","c">>, <<"z","z">>, <<"?">> }

StateInputs == { <<>>, <<"0","1">>, <<" ","0","2"," ">> }

CountryInputs ==
    { <<>>, PE, <<"p","e">>, <<"P","e","r","u">>, TD, OM,
      <<"z","z">>, <<"u","n","k","n","o","w","n">> }

\* a file that does not exist
NoFile == << [nofile |-> TRUE] >>

\* the values of the variables a specification does not use
NoIndexes ==
    /\ _city_index = <<>> /\ _city_index_norm = <<>>
    /\ _country_city_names = <<>> /\ _largest_city_by_country = <<>>

FindIdle ==
    /\ gaz = <<>> /\ NoIndexes /\ qcity = <<>> /\ qstate = <<>> /\ qcountry = <<>>
    /\ fpc = "idle" /\ fres = <<>> /\ cres = <<>>

BatchIdle ==
    /\ zip = <<>> /\ rows = <<>> /\ pc = "idle" /\ idx = 0 /\ run = 0 /\ total = 0
    /\ already_had = 0 /\ filled = 0 /\ nominatim_filled = 0 /\ q = <<>>
    /\ last = "none" /\ log = <<>> /\ csvIn = <<>> /\ afterInternal = <<>>
    /\ csvOut = NoFile /\ prevOut = NoFile /\ missingCsv = NoFile
    /\ exported = <<>> /\ mapping = <<>> /\ applied = 0 /\ manualCsv = NoFile
    /\ autoApplied = 0 /\ autoCsv = NoFile

BackupIdle ==
    /\ fs = <<>> /\ apc = "idle" /\ arows = <<>> /\ arun = 0 /\ pre = NoFile
    /\ os = "posix"

\* geocode_nuforc.py lines 38-70: the four indexes built from the gazetteer
BuildIndexes ==
    /\ _city_index' = BuildIndex(gaz, FALSE, Len(gaz))
    /\ _city_index_norm' = BuildIndex(gaz, TRUE, Len(gaz))
    /\ _country_city_names' = BuildCountryCityNames(gaz, Len(gaz))
    /\ _largest_city_by_country' = BuildLargest(gaz, Len(gaz))

InitFind ==
    /\ gaz \in Gazetteers
    /\ NoIndexes
    /\ qcity = <<>> /\ qstate = <<>> /\ qcountry = <<>>
    /\ fpc = "load"
    /\ fres = <<>>
    /\ cres = <<>>
    /\ BatchIdle
    /\ BackupIdle

\* the module is loaded: the indexes are built
Load ==
    /\ fpc = "load"
    /\ BuildIndexes
    /\ fpc' = "ask"
    /\ UNCHANGED <<gaz, qcity, qstate, qcountry, fres, cres, batchVars, backupVars>>

\* one call of _find_coords
Find ==
    /\ fpc = "ask"
    /\ \E city \in CityInputs, state \in StateInputs, country \in CountryInputs :
          /\ qcity' = city /\ qstate' = state /\ qcountry' = country
          /\ fres' = _find_coords(city, state, country)
    /\ fpc' = "answered"
    /\ UNCHANGED <<gaz, indexVars, cres, batchVars, backupVars>>

NextFind == Load \/ Find

SpecFind == InitFind /\ [][NextFind]_vars

-----------------------------------------------------------------------------
(***************************************************************************)
(* Properties of _find_coords (SpecFind).                                  *)
(***************************************************************************)
NoCoords == << <<>>, <<>> >>

CoordsOf(c) == <<Str(c.latitude), Str(c.longitude)>>

Answered == fpc = "answered"

\* the candidate of each tier for the call in the state, in the order of the
\* code: exact with admin, exact without admin, normalised with admin,
\* normalised without admin, substring, close match, largest city
TierCandidates ==
    LET iso   == ResolveIso(qcountry)
        admin == AdminOf(qstate)
        ncity == _normalize(qcity)
        named == qcity # <<>>
        exact == _city_index
        norm  == _city_index_norm
    IN  << DictGet(exact, <<Lower(qcity), iso, admin>>),
           IF named THEN DictGet(exact, <<Lower(qcity), iso, <<>> >>) ELSE <<>>,
           IF named THEN DictGet(norm, <<ncity, iso, admin>>) ELSE <<>>,
           IF named THEN DictGet(norm, <<ncity, iso, <<>> >>) ELSE <<>>,
           IF named THEN SubstringTier(ncity, iso) ELSE <<>>,
           IF named THEN CloseTier(ncity, iso) ELSE <<>>,
           DictGet(_largest_city_by_country, iso) >>

\* the number of the first tier with a candidate in t, 0 when no tier has one
FirstTier(t) ==
    IF \A i \in DOMAIN t : t[i] = <<>> THEN 0
    ELSE Min({i \in DOMAIN t : t[i] # <<>>})

\* no city-level tier (the first six) has a candidate
NoCityTier ==
    LET t == TierCandidates
    IN  \A i \in 1..6 : t[i] = <<>>

\* C2 as stated: whenever _map_country has no code for the country string,
\* _find_coords returns empty coordinates.
C2_GateOnMapCountry ==
    (Answered /\ _map_country(qcountry) = <<>>) => fres = NoCoords

\* C2, amended: whenever _map_country has no code for the country string and
\* none for the string in upper case, _find_coords returns empty coordinates
\* for every city and state.
C2_CountryGating ==
    (Answered /\ _map_country(qcountry) = <<>> /\ _map_country(Upper(qcountry)) = <<>>)
        => fres = NoCoords

C2_Witness ==
    /\ Answered
    /\ qcountry = <<"z","z">>
    /\ qcity # <<>>
    /\ Len(gaz) >= 2
    /\ _map_country(qcountry) = <<>>
    /\ _map_country(Upper(qcountry)) = <<>>
    /\ fres = NoCoords

\* C3: an entry of the exact index for (lower(city), code, admin), or else for
\* (lower(city), code, ''), decides the result, the entry with the admin code
\* first; and the result is always the city of the first tier, in the order of
\* TierCandidates, that has a candidate.
C3_TierMonotonicity ==
    (Answered /\ ResolveIso(qcountry) # <<>>) =>
        LET iso   == ResolveIso(qcountry)
            exact == _city_index
            ex    == DictGet(exact, <<Lower(qcity), iso, AdminOf(qstate)>>)
            ex2   == DictGet(exact, <<Lower(qcity), iso, <<>> >>)
            t     == TierCandidates
            first == FirstTier(t)
        IN  /\ ex # <<>> => fres = CoordsOf(ex[1])
            /\ (ex = <<>> /\ ex2 # <<>>) => fres = CoordsOf(ex2[1])
            /\ first # 0 => fres = CoordsOf(t[first][1])

\* a call whose exact entries with and without admin code are different cities
\* and whose largest city is a third one
C3_Witness ==
    /\ Answered
    /\ ResolveIso(qcountry) # <<>>
    /\ LET t == TierCandidates
       IN  /\ t[1] # <<>> /\ t[2] # <<>> /\ t[7] # <<>>
           /\ t[1] # t[2] /\ t[7][1].id # t[1][1].id /\ t[7][1].id # t[2][1].id
           /\ fres = CoordsOf(t[1][1])

\* the index in gaz of the first city of the highest population of a country
FirstLargest(iso) ==
    Min({i \in DOMAIN gaz :
            /\ gaz[i].countrycode = iso
            /\ \A j \in DOMAIN gaz :
                  gaz[j].countrycode = iso => gaz[j].population <= gaz[i].population})

\* C10: when the country has a code, no city-level tier has a candidate and the
\* gazetteer has a city of that country, _find_coords returns the coordinates
\* of the first city, in gazetteer order, of the highest population of the country.
C10_CountryFallback ==
    (/\ Answered
     /\ ResolveIso(qcountry) # <<>>
     /\ NoCityTier
     /\ \E i \in DOMAIN gaz : gaz[i].countrycode = ResolveIso(qcountry))
        => fres = CoordsOf(gaz[FirstLargest(ResolveIso(qcountry))])

\* a fallback decided between two cities of the same, highest population, with a
\* city name that matched nothing
C10_Witness ==
    /\ Answered
    /\ qcity = <<"z","z">>
    /\ ResolveIso(qcountry) = PE
    /\ NoCityTier
    /\ \E i, j \in DOMAIN gaz :
          /\ i < j
          /\ i = FirstLargest(PE)
          /\ gaz[j].countrycode = PE
          /\ gaz[j].population = gaz[i].population
    /\ fres = CoordsOf(gaz[FirstLargest(PE)])

-----------------------------------------------------------------------------
(***************************************************************************)
(* tools/auto_fill_missing_city_keys.py: the country lookup.               *)
(***************************************************************************)
\* lines 48-52: the manual variants added to country_name_to_code
manual_variants ==
    <<<<<<"u","s","a">>, <<"U","S">>>>,
      <<<<"u","n","i","t","e","d"," ","s","t","a","t","e","s">>, <<"U","S">>>>,
      <<<<"u","n","i","t","e","d"," ","s","t","a","t","e","s"," ","o","f"," ","a","m","e","r","i","c","a">>, <<"U","S">>>>,
      <<<<"u","s">>, <<"U","S">>>>,
      <<<<"u","k">>, <<"G","B">>>>,
      <<<<"u","n","i","t","e","d"," ","k","i","n","g","d","o","m">>, <<"G","B">>>>,
      <<<<"e","n","g","l","a","n","d">>, <<"G","B">>>>,
      <<<<"s","o","u","t","h"," ","k","o","r","e","a">>, <<"K","R">>>>,
      <<<<"n","o","r","t","h"," ","k","o","r","e","a">>, <<"K","P">>>>>>

\* lines 39-45: normalised name -> code and normalised iso3 -> code
RECURSIVE NamesToCode(_)
NamesToCode(n) ==
    IF n = 0 THEN <<>>
    ELSE LET d    == NamesToCode(n - 1)
             code == _countries[n][1]
             info == _countries[n][2]
             d1   == DictSet(d, normalize(info.name), code)
         IN  IF info.iso3 # <<>> THEN DictSet(d1, normalize(info.iso3), code) ELSE d1

\* dict.update
RECURSIVE DictUpdate(_, _, _)
DictUpdate(d, e, n) ==
    IF n = 0 THEN d ELSE DictSet(DictUpdate(d, e, n - 1), e[n][1], e[n][2])

\* country_name_to_code
country_name_to_code ==
    DictUpdate(NamesToCode(Len(_countries)), manual_variants, Len(manual_variants))

UsVariants == {<<"U","S","A">>, <<"U","S">>, <<"U","N","I","T","E","D"," ","S","T","A","T","E","S">>, <<"U","N","I","T","E","D"," ","S","T","A","T","E","S"," ","O","F"," ","A","M","E","R","I","C","A">>}

UkVariants == {<<"U","K">>, <<"U","N","I","T","E","D"," ","K","I","N","G","D","O","M">>, <<"E","N","G","L","A","N","D">>}

\* `x or y` on two values that are None or a code
OrElse(x, y) == IF x # <<>> THEN x ELSE y

\* lines 90-113: cc for the raw country field of a row, <<>> for None
AutoFillCountryCode(raw) ==
    LET country  == Strip(raw)
        ncountry == normalize(country)
        direct   == IF ncountry = <<>> THEN <<>>
                    ELSE OrElse(DictGet(country_name_to_code, Upper(ncountry)),
                                DictGet(country_name_to_code, ncountry))
        m        == get_close_matches(ncountry, DictKeys(country_name_to_code), 80)
        close    == IF ncountry = <<>> \/ direct # <<>> THEN direct
                    ELSE IF m # NoMatch THEN DictGet(country_name_to_code, m) ELSE <<>>
        keyu     == Upper(country)
        cc       == IF close = <<>> /\ country # <<>>
                    THEN IF keyu \in UsVariants THEN << <<"U","S">> >>
                         ELSE IF keyu \in UkVariants THEN << <<"G","B">> >>
                         ELSE <<>>
                    ELSE close
    IN  IF cc = <<>> THEN <<>> ELSE cc[1]

-----------------------------------------------------------------------------
(***************************************************************************)
(* The country resolvers as functions (SpecCountry): a country string is   *)
(* drawn and resolved by _map_country, by _find_coords' use of it and by   *)
(* the lookup of auto_fill_missing_city_keys.py.                           *)
(***************************************************************************)
MaxCountryLen == 3

CountryAlphabet == {"p", "e", "r", "P", "R"}

\* the strings of at most n characters of the alphabet
RECURSIVE StringsUpTo(_, _)
StringsUpTo(A, n) ==
    IF n = 0 THEN {<<>>}
    ELSE LET shorter == StringsUpTo(A, n - 1)
         IN  shorter \cup {Append(s, x) : s \in {t \in shorter : Len(t) = n - 1},
                                          x \in A}

CountryStrings ==
    StringsUpTo(CountryAlphabet, MaxCountryLen)
    \cup {<<"P","e","r","u">>,
          <<"P","E","R","U">>,
          <<"P","e","r","v">>,
          <<"p","e","r","u"," ">>,
          <<"C","h","a","d">>,
          <<"C","h","d","a">>,
          <<" ","u","s","a"," ">>,
          <<"U",".","S",".">>,
          <<"u","n","k","n","o","w","n">>,
          <<"E","n","g","l","a","n","d">>,
          <<"P","E">>,
          <<"T","D">>,
          <<"O","M">>,
          <<"o","m","n">>,
          <<"t","d">>,
          <<"U","n","i","t","e","d"," ","S","t","a","t","e","s">>}

InitCountry ==
    /\ gaz = <<>> /\ NoIndexes /\ qcity = <<>> /\ qstate = <<>>
    /\ qcountry \in CountryStrings
    /\ fpc = "ask"
    /\ fres = <<>>
    /\ cres = <<>>
    /\ BatchIdle
    /\ BackupIdle

\* the three lookups of the country string
CountryLookup ==
    /\ fpc = "ask"
    /\ cres' = <<_map_country(qcountry), ResolveIso(qcountry),
                 AutoFillCountryCode(qcountry)>>
    /\ fpc' = "answered"
    /\ UNCHANGED <<gaz, indexVars, qcity, qstate, qcountry, fres, batchVars,
                   backupVars>>

NextCountry == CountryLookup

SpecCountry == InitCountry /\ [][NextCountry]_vars

\* the country string is an ISO alpha-2 code, a country name or an alpha-3 code
\* ignoring case, or (trimmed, in lower case) an entry of an alias table
ExactCountry(name) ==
    \/ DictHas(_countries, name)
    \/ \E i \in DOMAIN _countries :
          \/ Lower(name) = Lower(_countries[i][2].name)
          \/ Upper(name) = Upper(_countries[i][2].iso3)
    \/ DictHas(common, Lower(Strip(name)))
    \/ DictHas(manual_variants, Lower(Strip(name)))

\* C9 as stated: no resolver of the repository gives a code to a country string
\* that is not an alpha-2 code, a name or alpha-3 code ignoring case, or an alias.
C9_NoResolverApproximates ==
    (Answered /\ (cres[1] # <<>> \/ cres[3] # <<>>)) => ExactCountry(qcountry)

\* C9, amended: _map_country gives a code only to an alpha-2 code, a country
\* name or alpha-3 code ignoring case, or an alias (trimmed, ignoring case),
\* and then the code of that entry.
C9_MapCountryExact ==
    (Answered /\ cres[1] # <<>>) =>
        /\ ExactCountry(qcountry)
        /\ \/ cres[1] = qcountry /\ DictHas(_countries, qcountry)
           \/ \E i \in DOMAIN _countries :
                 /\ cres[1] = _countries[i][1]
                 /\ \/ Lower(qcountry) = Lower(_countries[i][2].name)
                    \/ Upper(qcountry) = Upper(_countries[i][2].iso3)
           \/ DictGet(common, Lower(Strip(qcountry))) = <<cres[1]>>

\* a misspelt country name that _map_country refuses and the lookup of
\* auto_fill_missing_city_keys.py resolves
C9_Witness ==
    /\ Answered
    /\ qcountry = <<"P","e","r","v">>
    /\ cres[1] = <<>>
    /\ cres[2] = <<>>
    /\ cres[3] = PE

-----------------------------------------------------------------------------
(***************************************************************************)
(* geocode_nuforc.py as a batch: the internal loop, the Nominatim fallback *)
(* loop and the write of the output, one row of a loop per step.  A row is *)
(* a record of the five columns the tools read; the fields are text.       *)
(***************************************************************************)
MaxRows == 2
MaxRuns == 2

Row(city, state, country, lat, lon) ==
    [city |-> city, state |-> state, country |-> country, lat |-> lat, lon |-> lon]

\* a test that no row passes
NeverSkip(row) == FALSE

\* lines 170-172 (and 204-206, and the same test in every tool): the row has a
\* lat and a lon that are not empty after strip()
HasBoth(row) == Strip(row.lat) # <<>> /\ Strip(row.lon) # <<>>

\* the body of the internal loop for one row, lines 170-181: <<row, counter>>,
\* the counter being "already_had", "filled", "none" or "raised"
GeocodeOne(row) ==
    IF HasBoth(row) THEN <<row, "already_had">>
    ELSE CHOOSE r \in
           {IF c = Raised THEN <<row, "raised">>
            ELSE IF c[1] # <<>> /\ c[2] # <<>>
                 THEN <<[row EXCEPT !.lat = c[1], !.lon = c[2]], "filled">>
                 ELSE <<[row EXCEPT !.lat = Strip(row.lat), !.lon = Strip(row.lon)],
                        "none">> :
              c \in {_find_coords(row.city, row.state, row.country)}} : TRUE

\* ', '.join(parts)
RECURSIVE Join(_)
Join(parts) ==
    IF parts = <<>> THEN <<>>
    ELSE IF Len(parts) = 1 THEN parts[1]
    ELSE parts[1] \o <<",", " ">> \o Join(Tail(parts))

\* lines 208-216: the query built from the fields of a row that are not empty
Query(row) ==
    Join(SelectSeq(<<row.city, row.state, row.country>>, LAMBDA p : p # <<>>))

\* lines 204-217 with the test of lines 204-207 removed
NominatimSkipsEmptyQuery(row) == Query(row) = <<>>

\* lines 204-217: the fallback loop passes over a row that has coordinates or
\* whose query is empty
NominatimSkips(row) == HasBoth(row) \/ Query(row) = <<>>

\* what an external call can meet: an answer, or one of the failures
Outcomes ==
    { "ok", "ok_out_of_range", "timeout", "connection_error", "http_error",
      "bad_json", "empty_list", "not_a_list", "not_a_dict", "no_lat" }

\* the outcomes at which requests.get, raise_for_status, r.json() or
\* data[0].get raises
RaisingOutcomes ==
    { "timeout", "connection_error", "http_error", "bad_json", "not_a_dict" }

\* the coordinates of the answer of the service
OkAnswer == << <<"7">>, <<"8">> >>

\* an answer of the service whose lat is no latitude; line 195 returns the
\* values of the answer as they are
FarAnswer == << <<"9","1">>, <<"8">> >>

\* _nominatim_query without the try/except: an exception goes to the caller
_nominatim_query_uncaught(outcome) ==
    IF outcome \in RaisingOutcomes THEN Raised
    ELSE IF outcome = "ok" THEN OkAnswer
    ELSE IF outcome = "ok_out_of_range" THEN FarAnswer
    ELSE IF outcome = "no_lat" THEN << <<>>, <<"8">> >>
    ELSE << <<>>, <<>> >>

\* _nominatim_query, lines 186-198: <<lat, lon>> of the first element of the
\* answer, <<None, None>> after an exception or an answer that is no list or an
\* empty one
_nominatim_query(outcome) ==
    IF outcome \in RaisingOutcomes THEN << <<>>, <<>> >>
    ELSE IF outcome = "ok" THEN OkAnswer
    ELSE IF outcome = "ok_out_of_range" THEN FarAnswer
    ELSE IF outcome = "no_lat" THEN << <<>>, <<"8">> >>
    ELSE << <<>>, <<>> >>

\* line 224 removed
time_sleep_removed(i) == <<>>

\* time.sleep(1.1) of line 224 after the call for row i: what the log gets
time_sleep(i) == << <<"sleep", i>> >>


\* the rows an input is drawn from: a row the gazetteer resolves, one that has
\* coordinates already (and that the gazetteer would resolve to other ones),
\* rows of an unknown country with the same key up to blanks, with blank and
\* with padded coordinates, a row with no text at all, a row of a country
\* that has a code and no city, and a row with a lat and no lon whose city is in
\* the gazetteer and whose country is unknown
RowPool ==
    { Row(<<"A","b">>, <<>>, PE, <<>>, <<>>),
      Row(<<"A","b">>, <<>>, PE, <<"5">>, <<"6">>),
      Row(<<" ","z","z">>, <<>>, <<"z","z">>, <<>>, <<>>),
      Row(<<"z","z">>, <<>>, <<"z","z">>, <<" ">>, <<>>),
      Row(<<"z","z">>, <<>>, <<"z","z">>, <<" ","5"," ">>, <<"6">>),
      Row(<<>>, <<>>, <<>>, <<>>, <<>>),
      Row(<<>>, <<>>, OM, <<>>, <<>>),
      Row(<<"A","b">>, <<"0","1">>, <<"z","z">>, <<"5">>, <<>>) }

RowLists == SeqsUpTo(RowPool, MaxRows)

\* the gazetteers of the batch
BatchGazetteers ==
    { << City(1, <<"A","b">>, PE, <<"0","1">>, 1, 11, 5),
         City(5, <<"A","b">>, TD, <<"0","1">>, -5, 15, 0) >>,
      << City(4, <<"A","b","c">>, PE, <<"0","1">>, 4, 14, 7) >> }

InitBatch ==
    /\ gaz \in BatchGazetteers
    /\ NoIndexes
    /\ qcity = <<>> /\ qstate = <<>> /\ qcountry = <<>>
    /\ fpc = "idle" /\ fres = <<>> /\ cres = <<>>
    /\ zip \in RowLists
    /\ rows = <<>> /\ pc = "load" /\ idx = 0 /\ run = 0 /\ total = 0
    /\ already_had = 0 /\ filled = 0 /\ nominatim_filled = 0 /\ q = <<>>
    /\ last = "none" /\ log = <<>> /\ csvIn = <<>> /\ afterInternal = <<>>
    /\ csvOut = NoFile /\ prevOut = NoFile /\ missingCsv = NoFile
    /\ exported = <<>> /\ mapping = <<>> /\ applied = 0 /\ manualCsv = NoFile
    /\ autoApplied = 0 /\ autoCsv = NoFile
    /\ BackupIdle

toolVars == <<missingCsv, exported, mapping, applied, manualCsv, autoApplied, autoCsv>>
askVars  == <<qcity, qstate, qcountry, fpc, fres, cres>>

\* lines 18-70 and 160-168: the indexes are built, the rows are read, the
\* counters are set
StartBatch(input) ==
    /\ BuildIndexes
    /\ rows' = input
    /\ csvIn' = input
    /\ total' = Len(input)
    /\ already_had' = 0 /\ filled' = 0 /\ nominatim_filled' = 0
    /\ idx' = 1
    /\ q' = <<>> /\ last' = "none" /\ log' = <<>> /\ afterInternal' = <<>>
    /\ run' = run + 1
    /\ pc' = "geocode"

\* the first run, on the rows of the archive
Start ==
    /\ pc = "load"
    /\ StartBatch(zip)
    /\ UNCHANGED <<gaz, askVars, zip, csvOut, prevOut, toolVars, backupVars>>

\* the batch is run again, its previous output packaged as its input
Rerun ==
    /\ pc = "done"
    /\ run < MaxRuns
    /\ zip' = csvOut
    /\ prevOut' = csvOut
    /\ StartBatch(csvOut)
    /\ UNCHANGED <<gaz, askVars, csvOut, toolVars, backupVars>>

\* lines 169-181 for the row at idx; an exception of _find_coords ends the batch
GeocodeRow ==
    /\ pc = "geocode"
    /\ idx <= Len(rows)
    /\ \E g \in {GeocodeOne(rows[idx])} :
          /\ rows' = [rows EXCEPT ![idx] = g[1]]
          /\ already_had' = IF g[2] = "already_had" THEN already_had + 1 ELSE already_had
          /\ filled' = IF g[2] = "filled" THEN filled + 1 ELSE filled
          /\ pc' = IF g[2] = "raised" THEN "crashed" ELSE pc
          /\ idx' = IF g[2] = "raised" THEN idx ELSE idx + 1
    /\ UNCHANGED <<gaz, indexVars, askVars, zip, run, total, nominatim_filled, q,
                   last, log, csvIn, afterInternal, csvOut, prevOut, toolVars,
                   backupVars>>

\* lines 183-201: the internal loop is over; the fallback loop runs when
\* filled < total
EndGeocode ==
    /\ pc = "geocode"
    /\ idx > Len(rows)
    /\ afterInternal' = rows
    /\ pc' = IF filled < total THEN "nominatim" ELSE "write"
    /\ idx' = 1
    /\ UNCHANGED <<gaz, indexVars, askVars, zip, rows, run, total, already_had,
                   filled, nominatim_filled, q, last, log, csvIn, csvOut, prevOut,
                   toolVars, backupVars>>

\* lines 203-217 for the row at idx: the row is passed over when it has
\* coordinates or an empty query, else the external call is made
NominatimRow ==
    /\ pc = "nominatim"
    /\ idx <= Len(rows)
    /\ IF NominatimSkips(rows[idx])
       THEN /\ idx' = idx + 1
            /\ UNCHANGED <<pc, q, log>>
       ELSE /\ q' = Query(rows[idx])
            /\ log' = Append(log, <<"call", idx>>)
            /\ pc' = "call"
            /\ UNCHANGED idx
    /\ UNCHANGED <<gaz, indexVars, askVars, zip, rows, run, total, already_had,
                   filled, nominatim_filled, last, csvIn, afterInternal, csvOut,
                   prevOut, toolVars, backupVars>>

\* lines 218-221: the call returns and the row is filled when both values are
\* there; an exception out of the call ends the batch
NominatimReturn ==
    /\ pc = "call"
    /\ \E outcome \in Outcomes :
          /\ last' = outcome
          /\ \E n \in {_nominatim_query(outcome)} :
                IF n = Raised
                THEN /\ pc' = "crashed"
                     /\ UNCHANGED <<rows, nominatim_filled, log>>
                ELSE /\ pc' = "sleep"
                     /\ log' = Append(log, <<"return", idx>>)
                     /\ IF n[1] # <<>> /\ n[2] # <<>>
                        THEN /\ rows' = [rows EXCEPT ![idx].lat = n[1],
                                                     ![idx].lon = n[2]]
                             /\ nominatim_filled' = nominatim_filled + 1
                        ELSE UNCHANGED <<rows, nominatim_filled>>
    /\ UNCHANGED <<gaz, indexVars, askVars, zip, idx, run, total, already_had,
                   filled, q, csvIn, afterInternal, csvOut, prevOut, toolVars,
                   backupVars>>

\* lines 223-224: the rate-limit delay, then the next row
Sleep ==
    /\ pc = "sleep"
    /\ log' = log \o time_sleep(idx)
    /\ idx' = idx + 1
    /\ pc' = "nominatim"
    /\ UNCHANGED <<gaz, indexVars, askVars, zip, rows, run, total, already_had,
                   filled, nominatim_filled, q, last, csvIn, afterInternal,
                   csvOut, prevOut, toolVars, backupVars>>

\* line 226: the fallback loop is over
EndNominatim ==
    /\ pc = "nominatim"
    /\ idx > Len(rows)
    /\ pc' = "write"
    /\ UNCHANGED <<gaz, indexVars, askVars, zip, rows, idx, run, total,
                   already_had, filled, nominatim_filled, q, last, log, csvIn,
                   afterInternal, csvOut, prevOut, toolVars, backupVars>>

\* lines 228-241: OUTPUT_CSV is opened for writing and the rows are written
\* (OUTPUT_JS gets the same rows); rows[0] raises IndexError for an empty list,
\* the file then open and empty
Write ==
    /\ pc = "write"
    /\ csvOut' = rows
    /\ pc' = IF rows = <<>> THEN "crashed" ELSE "done"
    /\ UNCHANGED <<gaz, indexVars, askVars, zip, rows, idx, run, total,
                   already_had, filled, nominatim_filled, q, last, log, csvIn,
                   afterInternal, prevOut, toolVars, backupVars>>

-----------------------------------------------------------------------------
(***************************************************************************)
(* The override tools.  Each reads OUTPUT_CSV of the batch and runs to its *)
(* end in one step.                                                        *)
(***************************************************************************)
\* the (city, state, country) key of a row, every field stripped
KeyOf(row) == <<Strip(row.city), Strip(row.state), Strip(row.country)>>

\* export_missing_city_keys.py lines 13-25: the Counter of the keys of the rows
\* without coordinates, in the order of their first row
RECURSIVE CountKeys(_, _)
CountKeys(rs, n) ==
    IF n = 0 THEN <<>>
    ELSE CHOOSE r \in
           {IF HasBoth(rs[n]) THEN d
            ELSE IF DictHas(d, KeyOf(rs[n]))
                 THEN DictSet(d, KeyOf(rs[n]), DictGet(d, KeyOf(rs[n]))[1] + 1)
                 ELSE DictSet(d, KeyOf(rs[n]), 1) :
              d \in {CountKeys(rs, n - 1)}} : TRUE

\* Counter.most_common(): the entries by falling count, entries of equal count
\* in the order of the Counter
most_common(counter) ==
    LET before(i, j) == \/ counter[i][2] > counter[j][2]
                        \/ counter[i][2] = counter[j][2] /\ i < j
        place(i) == 1 + Cardinality({j \in DOMAIN counter : before(j, i)})
    IN  [p \in DOMAIN counter |-> counter[CHOOSE i \in DOMAIN counter : place(i) = p]]

\* a row of missing_city_keys.csv
MissingRow(key, count, lat, lon) ==
    [city |-> key[1], state |-> key[2], country |-> key[3], count |-> count,
     lat |-> lat, lon |-> lon]

\* lines 28-32: one row per key, lat and lon empty
ExportRows(rs) ==
    CHOOSE out \in {[i \in DOMAIN mc |-> MissingRow(mc[i][1], mc[i][2], <<>>, <<>>)] :
                      mc \in {most_common(CountKeys(rs, Len(rs)))}} : TRUE

\* LoadMapping with lat and lon taken as they are in the file
RECURSIVE LoadMappingAsText(_, _)
LoadMappingAsText(file, n) ==
    IF n = 0 THEN <<>>
    ELSE CHOOSE r \in
           {IF file[n].lat # <<>> /\ file[n].lon # <<>>
            THEN DictSet(d, KeyOf(file[n]), <<file[n].lat, file[n].lon>>)
            ELSE d : d \in {LoadMappingAsText(file, n - 1)}} : TRUE

\* apply_missing_city_keys.py lines 17-27: the mapping of the keys of the file
\* whose lat and lon are not empty after strip()
RECURSIVE LoadMapping(_, _)
LoadMapping(file, n) ==
    IF n = 0 THEN <<>>
    ELSE CHOOSE r \in
           {IF Strip(file[n].lat) # <<>> /\ Strip(file[n].lon) # <<>>
            THEN DictSet(d, KeyOf(file[n]), <<Strip(file[n].lat), Strip(file[n].lon)>>)
            ELSE d : d \in {LoadMapping(file, n - 1)}} : TRUE

\* ApplyOne with the key of the row taken as it is in the file
ApplyOneRawKey(row, map) ==
    IF HasBoth(row) THEN row
    ELSE IF DictHas(map, <<row.city, row.state, row.country>>)
         THEN [row EXCEPT !.lat = DictGet(map, <<row.city, row.state, row.country>>)[1][1],
                          !.lon = DictGet(map, <<row.city, row.state, row.country>>)[1][2]]
         ELSE row

\* lines 35-46 for one row
ApplyOne(row, map) ==
    IF HasBoth(row) THEN row
    ELSE IF DictHas(map, KeyOf(row))
         THEN [row EXCEPT !.lat = DictGet(map, KeyOf(row))[1][1],
                          !.lon = DictGet(map, KeyOf(row))[1][2]]
         ELSE row

\* the rows line 46 counts
AppliedTo(rs, map) == {i \in DOMAIN rs : ~HasBoth(rs[i]) /\ DictHas(map, KeyOf(rs[i]))}

\* the values somebody types into the lat and lon columns of the exported file
FillLats == { <<>>, <<" ">>, <<"9">> }
FillLons == { <<>>, <<" ","4">> }

\* a line somebody adds to the file: none, one of a key that no row of the
\* dataset has, or a second one for the key of the first line, typed with a
\* blank before the city and with other coordinates
ExtraEntries(file) ==
    { <<>>, << MissingRow(<< <<"q","q">>, <<>>, <<"z","z">> >>, 1, <<"3">>, <<"2">>) >> }
    \cup IF file = <<>> THEN {}
         ELSE { << MissingRow(<< <<" ">> \o file[1].city, file[1].state,
                                file[1].country >>, 1, <<"1">>, <<"2"," ">>) >> }


\* fill_and_apply_city_centers.py lines 37-47, index: (normalised name, country
\* in upper case) -> (lat, lon), the first city of a key kept; cities without
\* name or country are passed over
RECURSIVE AutoIndex(_, _)
AutoIndex(cities, n) ==
    IF n = 0 THEN <<>>
    ELSE CHOOSE r \in
           {IF t[2] = <<>> \/ cities[n].countrycode = <<>> THEN t[1]
            ELSE DictSetDefault(t[1], <<t[2], Upper(cities[n].countrycode)>>,
                                <<cities[n].latitude, cities[n].longitude>>) :
              t \in {<<AutoIndex(cities, n - 1), normalize(cities[n].name)>>}} : TRUE

\* lines 38-47, country_to_names: country -> (normalised name -> (lat, lon)),
\* the last city of a name kept
RECURSIVE AutoCountryToNames(_, _)
AutoCountryToNames(cities, n) ==
    IF n = 0 THEN <<>>
    ELSE CHOOSE r \in
           {IF t[2] = <<>> \/ cities[n].countrycode = <<>> THEN t[1]
            ELSE DictSet(t[1], Upper(cities[n].countrycode),
                         DictSet(IF DictHas(t[1], Upper(cities[n].countrycode))
                                 THEN DictGet(t[1], Upper(cities[n].countrycode))[1]
                                 ELSE <<>>,
                                 t[2], <<cities[n].latitude, cities[n].longitude>>)) :
              t \in {<<AutoCountryToNames(cities, n - 1),
                       normalize(cities[n].name)>>}} : TRUE

\* lines 91-98 and 101-107: the value of the first entry of index whose name is
\* the closest match of ncity among all names, None when there is no match
GlobalClose(index, ncity, cutoff) ==
    CHOOSE r \in
      {IF m = NoMatch THEN <<>>
       ELSE <<index[Min({i \in DOMAIN index : index[i][1][1] = m})][2]>> :
         m \in {get_close_matches(ncity, [i \in DOMAIN index |-> index[i][1][1]],
                                  cutoff)}} : TRUE

\* lines 84-88: the closest match of ncity among the names of the country
CountryClose(names, ncity) ==
    CHOOSE r \in
      {IF m = NoMatch THEN <<>> ELSE DictGet(names, m) :
         m \in {get_close_matches(ncity, DictKeys(names), 78)}} : TRUE

\* lines 76-107 for a key: latlon, <<>> for None
AutoLatLon(index, ctn, ncity, cc_norm) ==
    CHOOSE latlon \in
      {IF l3 = <<>> /\ ncity # <<>> THEN GlobalClose(index, ncity, 90) ELSE l3 : l3 \in
      {IF ncity # <<>> /\ cc_norm # <<>> /\ l2 = <<>>
       THEN GlobalClose(index, ncity, 85) ELSE l2 : l2 \in
      {IF ncity # <<>> /\ cc_norm # <<>> /\ l1 = <<>> /\ DictHas(ctn, cc_norm)
       THEN CountryClose(DictGet(ctn, cc_norm)[1], ncity) ELSE l1 : l1 \in
      {IF ncity # <<>> /\ cc_norm # <<>> THEN DictGet(index, <<ncity, cc_norm>>)
       ELSE <<>>}}}} : TRUE

\* lines 57-111, filled_map: the keys of the rows without coordinates that got
\* a latlon, with it
RECURSIVE FilledMap(_, _, _, _)
FilledMap(rs, index, ctn, n) ==
    IF n = 0 THEN <<>>
    ELSE CHOOSE r \in
           {IF HasBoth(rs[n]) \/ DictHas(d, KeyOf(rs[n])) THEN d
            ELSE CHOOSE e \in
                   {IF latlon = <<>> THEN d ELSE DictSet(d, KeyOf(rs[n]), latlon[1]) :
                      latlon \in {AutoLatLon(index, ctn, normalize(KeyOf(rs[n])[1]),
                                             Upper(Strip(KeyOf(rs[n])[3])))}} : TRUE :
              d \in {FilledMap(rs, index, ctn, n - 1)}} : TRUE

\* lines 118-128 for one row; the writer of line 134 writes str() of the numbers
AutoApplyOne(row, filled_map) ==
    IF HasBoth(row) THEN row
    ELSE IF DictHas(filled_map, KeyOf(row))
         THEN [row EXCEPT !.lat = Str(DictGet(filled_map, KeyOf(row))[1][1]),
                          !.lon = Str(DictGet(filled_map, KeyOf(row))[1][2])]
         ELSE row


\* export_missing_city_keys.py on the output of the batch
Export ==
    /\ pc = "done"
    /\ \E out \in {ExportRows(csvOut)} :
          /\ missingCsv' = out
          /\ exported' = [i \in DOMAIN out |-> KeyOf(out[i])]
    /\ pc' = "exported"
    /\ UNCHANGED <<gaz, indexVars, askVars, zip, rows, idx, run, total,
                   already_had, filled, nominatim_filled, q, last, log, csvIn,
                   afterInternal, csvOut, prevOut, mapping, applied, manualCsv,
                   autoApplied, autoCsv, backupVars>>

\* somebody fills the lat and lon columns of missing_city_keys.csv and may add
\* a line
Fill ==
    /\ pc = "exported"
    /\ \E lats \in [DOMAIN missingCsv -> FillLats],
          lons \in [DOMAIN missingCsv -> FillLons],
          extra \in ExtraEntries(missingCsv) :
          missingCsv' = [i \in DOMAIN missingCsv |->
                            [missingCsv[i] EXCEPT !.lat = lats[i], !.lon = lons[i]]]
                        \o extra
    /\ pc' = "filled"
    /\ UNCHANGED <<gaz, indexVars, askVars, zip, rows, idx, run, total,
                   already_had, filled, nominatim_filled, q, last, log, csvIn,
                   afterInternal, csvOut, prevOut, exported, mapping, applied,
                   manualCsv, autoApplied, autoCsv, backupVars>>

\* apply_missing_city_keys.py: the mapping is loaded, the rows of OUTPUT_CSV
\* are read, the apply loop runs, the rows are written to the manual_filled file
ApplyMissing ==
    /\ pc = "filled"
    /\ \E map \in {LoadMapping(missingCsv, Len(missingCsv))} :
          /\ mapping' = map
          /\ rows' = [i \in DOMAIN csvOut |-> ApplyOne(csvOut[i], map)]
          /\ applied' = Cardinality(AppliedTo(csvOut, map))
    /\ manualCsv' = rows'
    /\ pc' = "applied"
    /\ UNCHANGED <<gaz, indexVars, askVars, zip, idx, run, total, already_had,
                   filled, nominatim_filled, q, last, log, csvIn, afterInternal,
                   csvOut, prevOut, missingCsv, exported, autoApplied, autoCsv,
                   backupVars>>

\* fill_and_apply_city_centers.py: its index is built, the rows of OUTPUT_CSV
\* are read, the keys without coordinates are looked up, the fills are applied
\* and the rows are written to the auto_filled file
FillAndApply ==
    /\ pc = "done"
    /\ \E fm \in {FilledMap(csvOut, AutoIndex(gaz, Len(gaz)),
                            AutoCountryToNames(gaz, Len(gaz)), Len(csvOut))} :
          /\ rows' = [i \in DOMAIN csvOut |-> AutoApplyOne(csvOut[i], fm)]
          /\ autoApplied' = Cardinality(AppliedTo(csvOut, fm))
    /\ autoCsv' = rows'
    /\ pc' = "autofilled"
    /\ UNCHANGED <<gaz, indexVars, askVars, zip, idx, run, total, already_had,
                   filled, nominatim_filled, q, last, log, csvIn, afterInternal,
                   csvOut, prevOut, missingCsv, exported, mapping, applied,
                   manualCsv, backupVars>>

\* a step of geocode_nuforc.py
BatchStep ==
    \/ GeocodeRow \/ EndGeocode \/ NominatimRow \/ NominatimReturn \/ Sleep
    \/ EndNominatim \/ Write

NextBatch ==
    \/ Start \/ BatchStep \/ Rerun \/ Export \/ Fill \/ ApplyMissing \/ FillAndApply

SpecBatch == InitBatch /\ [][NextBatch]_vars

\* the batch, once started, goes on to its end
SpecBatchFair == SpecBatch /\ WF_vars(BatchStep)

-----------------------------------------------------------------------------
(***************************************************************************)
(* Properties of the batch and of the override tools (SpecBatch).          *)
(***************************************************************************)
Coords(row) == <<row.lat, row.lon>>

NonEmptyCoords(row) == Strip(row.lat) # <<>> /\ Strip(row.lon) # <<>>

\* the rows the pass that is running, or that ran last, started from
PassStart == IF pc \in {"applied", "autofilled"} THEN csvOut ELSE csvIn

\* the file the pass that ran last wrote
PassOutput ==
    IF pc = "applied" THEN manualCsv
    ELSE IF pc = "autofilled" THEN autoCsv
    ELSE csvOut

\* C1: at every point of a pass (a batch run with its internal and its fallback
\* loop, apply_missing_city_keys, fill_and_apply_city_centers), every row that
\* had a lat and a lon not empty after trimming when the pass started has the
\* same lat and lon, in memory and in the file the pass wrote.
C1_NoOverwrite ==
    pc # "load" =>
        /\ DOMAIN rows = DOMAIN PassStart
        /\ \A i \in DOMAIN rows :
              NonEmptyCoords(PassStart[i]) => Coords(rows[i]) = Coords(PassStart[i])
        /\ pc \in {"done", "applied", "autofilled"} =>
              /\ DOMAIN PassOutput = DOMAIN PassStart
              /\ \A i \in DOMAIN PassStart :
                    NonEmptyCoords(PassStart[i]) =>
                        Coords(PassOutput[i]) = Coords(PassStart[i])

\* the apply loop filled a row and passed over a row of the same key that had
\* other coordinates than the override table gives
C1_Witness ==
    /\ pc = "applied"
    /\ applied >= 1
    /\ \E i \in DOMAIN csvOut :
          /\ NonEmptyCoords(csvOut[i])
          /\ DictHas(mapping, KeyOf(csvOut[i]))
          /\ DictGet(mapping, KeyOf(csvOut[i]))[1] # Coords(csvOut[i])
          /\ manualCsv[i] = csvOut[i]

\* every key of the override file has a lat and a lon that are not empty
FilledAsText == \A i \in DOMAIN missingCsv :
                    missingCsv[i].lat # <<>> /\ missingCsv[i].lon # <<>>

\* every key of the override file has a lat and a lon that are not empty after
\* trimming
FilledTrimmed == \A i \in DOMAIN missingCsv :
                    Strip(missingCsv[i].lat) # <<>> /\ Strip(missingCsv[i].lon) # <<>>

\* no row of the applied dataset whose key was exported has an empty lat or lon
NoneLeftOfExport ==
    \A i \in DOMAIN manualCsv :
        (\E k \in DOMAIN exported : exported[k] = KeyOf(manualCsv[i]))
            => NonEmptyCoords(manualCsv[i])

\* C4 as stated: after export, a fill of every exported key with a non-empty lat
\* and lon, and apply, no row whose key was exported has an empty lat or lon.
C4_RoundTripNonEmpty == (pc = "applied" /\ FilledAsText) => NoneLeftOfExport

\* C4, amended: after export, a fill of every exported key with a lat and a lon
\* that are not empty after trimming, and apply, no row whose key was exported
\* has an empty lat or lon.
C4_RoundTrip == (pc = "applied" /\ FilledTrimmed) => NoneLeftOfExport

\* two rows of one exported key, one of them with blanks around its city,
\* filled by the apply
C4_Witness ==
    /\ pc = "applied"
    /\ FilledTrimmed
    /\ Len(exported) = 1
    /\ applied = 2
    /\ manualCsv[1].city # manualCsv[2].city
    /\ NoneLeftOfExport

\* the rows of a list whose external lookup the log records
Called == {log[k][2] : k \in {n \in DOMAIN log : log[n][1] = "call"}}

\* C5 as stated: after a run on the output of the previous run, every row has
\* the lat and lon the previous run wrote.
C5_RerunChangesNothing ==
    (pc = "done" /\ run = 2) =>
        \A i \in DOMAIN csvOut : Coords(csvOut[i]) = Coords(prevOut[i])

\* C5, amended: in a run on the output of the previous run the internal loop
\* changes no row, every row the previous run wrote with a lat and a lon keeps
\* them, and a row differs from what the previous run wrote only when the
\* external lookup was called for it in this run and answered.
C5_RerunIdempotent ==
    (run = 2 /\ pc \in {"nominatim", "call", "sleep", "write", "done"}) =>
        /\ afterInternal = prevOut
        /\ DOMAIN rows = DOMAIN prevOut
        /\ \A i \in DOMAIN rows :
              /\ NonEmptyCoords(prevOut[i]) => rows[i] = prevOut[i]
              /\ rows[i] # prevOut[i] => (i \in Called /\ Coords(rows[i]) \in {OkAnswer, FarAnswer})
        /\ pc = "done" => csvOut = rows

\* a second run that ended: a row the first run resolved by the external lookup
\* and a row it left unresolved, looked up again without an answer
C5_Witness ==
    /\ run = 2
    /\ pc = "done"
    /\ Len(prevOut) = 2
    /\ \E i, j \in DOMAIN prevOut :
          /\ Coords(prevOut[i]) = OkAnswer /\ csvOut[i] = prevOut[i]
          /\ ~NonEmptyCoords(prevOut[j]) /\ j \in Called /\ csvOut[j] = prevOut[j]

\* C6: the external calls of a run are for rows in strictly rising row order
\* (so at most one per row), only for rows without a lat or lon after the
\* internal loop, every call returns before anything else happens, and every
\* return is followed by the delay before the next call is made.
C6_SerialRateLimited ==
    /\ \A k \in DOMAIN log :
          /\ log[k][2] \in DOMAIN afterInternal
          /\ ~NonEmptyCoords(afterInternal[log[k][2]])
          /\ log[k][1] = "call" =>
                /\ k = 1 \/ (log[k - 1][1] = "sleep" /\ log[k - 1][2] < log[k][2])
                /\ k < Len(log) => log[k + 1] = <<"return", log[k][2]>>
                /\ k = Len(log) => pc = "call"
          /\ log[k][1] = "return" =>
                /\ k > 1 /\ log[k - 1] = <<"call", log[k][2]>>
                /\ k < Len(log) => log[k + 1] = <<"sleep", log[k][2]>>
                /\ k = Len(log) => pc = "sleep"
          /\ log[k][1] = "sleep" =>
                k > 1 /\ log[k - 1] = <<"return", log[k][2]>>
    /\ \A k, l \in DOMAIN log :
          (k < l /\ log[k][1] = "call" /\ log[l][1] = "call") =>
              /\ log[k][2] < log[l][2]
              /\ \E m \in (k + 1)..(l - 1) : log[m][1] = "sleep"

\* a run that made two external calls
C6_Witness ==
    /\ pc = "done"
    /\ Cardinality(Called) = 2
    /\ Len(log) = 6

\* the outcomes of an external call that are failures
Failures == Outcomes \ {"ok", "ok_out_of_range"}

\* C7: a failed external call changes no row and is followed by the delay, not
\* by the end of the batch; a run that ends has looked up every row that the
\* internal loop left without coordinates and that has a query; and a run that
\* is in the fallback loop ends with its output written.
C7_FailureAbsorbed ==
    /\ [][(pc = "call" /\ pc' # "call" /\ last' \in Failures)
              => (pc' = "sleep" /\ rows' = rows)]_vars
    /\ [](pc = "done" =>
            /\ csvOut = rows
            /\ \A i \in DOMAIN afterInternal :
                  (~NonEmptyCoords(afterInternal[i]) /\ Query(afterInternal[i]) # <<>>)
                      => i \in Called)
    /\ (pc \in {"nominatim", "call", "sleep"}) ~> (pc = "done")

\* a run that ended after a failed call for its first row and an answered call
\* for its second
C7_Witness ==
    /\ pc = "done"
    /\ run = 1
    /\ Called = {1, 2}
    /\ ~NonEmptyCoords(csvOut[1])
    /\ Coords(csvOut[2]) = OkAnswer
    /\ nominatim_filled = 1

-----------------------------------------------------------------------------
(***************************************************************************)
(* tools/auto_fill_missing_city_keys.py: the override file is read, its    *)
(* rows are filled from the gazetteer, and the file is replaced after a    *)
(* backup.  The files are MISSING, BACKUP and OUT.                         *)
(***************************************************************************)
MaxMissing == 2
MaxAutoRuns == 2

\* lines 55-66, city_index: (normalised name, country) -> (lat, lon), the last
\* city of a key kept
RECURSIVE BuildCityIndex(_, _)
BuildCityIndex(cities, n) ==
    IF n = 0 THEN <<>>
    ELSE CHOOSE r \in
           {IF t[2] = <<>> \/ cities[n].countrycode = <<>> THEN t[1]
            ELSE DictSet(t[1], <<t[2], Upper(cities[n].countrycode)>>,
                         <<cities[n].latitude, cities[n].longitude>>) :
              t \in {<<BuildCityIndex(cities, n - 1), normalize(cities[n].name)>>}} : TRUE

\* lines 57-73, largest_by_country: the (lat, lon) of the first city of the
\* highest population of a country, with that population
RECURSIVE BuildLargestByCountry(_, _)
BuildLargestByCountry(cities, n) ==
    IF n = 0 THEN <<>>
    ELSE CHOOSE r \in
           {IF t[2] = <<>> \/ cities[n].countrycode = <<>> THEN t[1]
            ELSE IF ~DictHas(t[1], Upper(cities[n].countrycode))
                    \/ cities[n].population
                         > DictGet(t[1], Upper(cities[n].countrycode))[1].population
                 THEN DictSet(t[1], Upper(cities[n].countrycode), cities[n])
                 ELSE t[1] :
              t \in {<<BuildLargestByCountry(cities, n - 1),
                       normalize(cities[n].name)>>}} : TRUE

\* lines 114-138: found for a normalised city and a country code, <<>> for None
Found(city_index, country_to_city_names, largest_by_country, ncity, cc) ==
    CHOOSE found \in
      {IF f3 = <<>> /\ cc # <<>> /\ DictHas(largest_by_country, cc)
       THEN << <<DictGet(largest_by_country, cc)[1].latitude,
                 DictGet(largest_by_country, cc)[1].longitude>> >>
       ELSE f3 : f3 \in
      {IF f2 = <<>> /\ ncity # <<>> THEN GlobalClose(city_index, ncity, 90)
       ELSE f2 : f2 \in
      {IF f1 = <<>> /\ ncity # <<>> /\ cc # <<>> /\ DictHas(country_to_city_names, cc)
       THEN CountryClose(DictGet(country_to_city_names, cc)[1], ncity)
       ELSE f1 : f1 \in
      {IF ncity # <<>> /\ cc # <<>> THEN DictGet(city_index, <<ncity, cc>>)
       ELSE <<>>}}}} : TRUE

\* lines 83-142 for one row of the override file
AutoFillRow(r, city_index, country_to_city_names, largest_by_country) ==
    IF Strip(r.lat) # <<>> /\ Strip(r.lon) # <<>> THEN r
    ELSE CHOOSE filled_row \in
           {IF found = <<>> THEN r
            ELSE [r EXCEPT !.lat = Str(found[1][1]), !.lon = Str(found[1][2])] :
              found \in {Found(city_index, country_to_city_names, largest_by_country,
                               normalize(Strip(r.city)),
                               AutoFillCountryCode(r.country))}} : TRUE

\* lines 34-142: the rows of the override file after the fill loop
AutoFillRows(file, cities) ==
    CHOOSE out \in
      {[i \in DOMAIN file |-> AutoFillRow(file[i], t[1], t[2], t[3])] :
         t \in {<<BuildCityIndex(cities, Len(cities)),
                  AutoCountryToNames(cities, Len(cities)),
                  BuildLargestByCountry(cities, Len(cities))>>}} : TRUE


\* a file that has just been opened for writing
EmptyFile == << [empty |-> TRUE] >>

\* the rows an override file is drawn from: keys the gazetteer fills by name,
\* by the largest city of the country or not at all, and a key filled already
MissingPool ==
    { MissingRow(<<<<"A","b">>, <<>>, <<"P","e","r","u">>>>, 1, <<>>, <<>>),
      MissingRow(<<<<"z","z">>, <<>>, <<"z","z">>>>, 2, <<>>, <<>>),
      MissingRow(<<<<"A","b">>, <<>>, PE>>, 1, <<"5">>, <<"6">>),
      MissingRow(<<<<>>, <<>>, <<"O","m","a","n">>>>, 1, <<>>, <<>>),
      MissingRow(<<<<"Q","q">>, <<>>, <<"C","h","a","d">>>>, 3, <<>>, <<" ">>) }

MissingFiles == SeqsUpTo(MissingPool, MaxMissing) \cup {NoFile}

\* what BACKUP holds before the first run: nothing, or an older override file
OldBackups ==
    { NoFile, << MissingRow(<<<<"o","l","d">>, <<>>, <<>>>>, 1, <<>>, <<>>) >> }

InitBackup ==
    /\ gaz \in BatchGazetteers
    /\ NoIndexes
    /\ qcity = <<>> /\ qstate = <<>> /\ qcountry = <<>>
    /\ fpc = "idle" /\ fres = <<>> /\ cres = <<>>
    /\ BatchIdle
    /\ os \in {"posix", "nt"}
    /\ \E m \in MissingFiles, b \in OldBackups :
          fs = [missing |-> m, backup |-> b, out |-> NoFile]
    /\ apc = "start"
    /\ arows = <<>>
    /\ arun = 0
    /\ pre = NoFile

\* lines 18-144: the tool starts (for the first time, or again on the file it
\* left), leaves when there is no override file, else reads it and fills its rows
AutoFillStart ==
    /\ apc = "start" \/ (apc = "ended" /\ arun < MaxAutoRuns)
    /\ arun' = arun + 1
    /\ pre' = fs.missing
    /\ IF fs.missing = NoFile
       THEN apc' = "exit" /\ UNCHANGED arows
       ELSE apc' = "rename" /\ arows' = AutoFillRows(fs.missing, gaz)
    /\ UNCHANGED <<findVars, batchVars, fs, os>>

\* line 147, MISSING.rename(BACKUP): on POSIX an existing BACKUP is replaced,
\* on Windows FileExistsError is raised when BACKUP exists
Rename ==
    /\ apc = "rename"
    /\ IF os = "nt" /\ fs.backup # NoFile
       THEN apc' = "crashed" /\ UNCHANGED fs
       ELSE /\ fs' = [fs EXCEPT !.backup = fs.missing, !.missing = NoFile]
            /\ apc' = "open"
    /\ UNCHANGED <<findVars, batchVars, arows, arun, pre, os>>

\* line 148: OUT is opened for writing
OpenOut ==
    /\ apc = "open"
    /\ fs' = [fs EXCEPT !.out = EmptyFile]
    /\ apc' = "write"
    /\ UNCHANGED <<findVars, batchVars, arows, arun, pre, os>>

\* lines 149-151: the header and the rows are written
WriteOut ==
    /\ apc = "write"
    /\ fs' = [fs EXCEPT !.out = arows]
    /\ apc' = "replace"
    /\ UNCHANGED <<findVars, batchVars, arows, arun, pre, os>>

\* line 154, OUT.replace(MISSING)
Replace ==
    /\ apc = "replace"
    /\ fs' = [fs EXCEPT !.missing = fs.out, !.out = NoFile]
    /\ apc' = "ended"
    /\ UNCHANGED <<findVars, batchVars, arows, arun, pre, os>>

NextBackup == AutoFillStart \/ Rename \/ OpenOut \/ WriteOut \/ Replace

SpecBackup == InitBackup /\ [][NextBackup]_vars

\* C8 as stated: from the start of the write-back to its end the content the
\* override file had before the run is on disk under the override name or the
\* backup name, and when the run is over the backup file holds that content and
\* the override file holds the filled rows, in a first run and in a run on the
\* output of a run.
C8_BackupBeforeChange ==
    /\ apc \in {"rename", "open", "write", "replace", "ended", "crashed"} =>
          (fs.missing = pre \/ fs.backup = pre)
    /\ apc \in {"ended", "crashed"} => (fs.backup = pre /\ fs.missing = arows)

-----------------------------------------------------------------------------
(***************************************************************************)
(* The range of the coordinates a run writes (SpecBatch).                  *)
(***************************************************************************)
\* the text is a whole number in decimal, with or without a minus sign and
\* blanks around it
IsNumber(s) ==
    LET t == Strip(s)
        d == IF t # <<>> /\ Head(t) = "-" THEN Tail(t) ELSE t
    IN  d # <<>> /\ \A i \in DOMAIN d : IsDigit(d[i])

RECURSIVE NatOf(_)
NatOf(d) ==
    IF d = <<>> THEN 0
    ELSE 10 * NatOf(SubSeq(d, 1, Len(d) - 1)) + (IndexOf(d[Len(d)], Digits) - 1)

\* the number a text that IsNumber stands for
NumberOf(s) ==
    LET t == Strip(s)
    IN  IF Head(t) = "-" THEN 0 - NatOf(Tail(t)) ELSE NatOf(t)

LatInRange(s) == IsNumber(s) /\ NumberOf(s) >= -90 /\ NumberOf(s) <= 90
LonInRange(s) == IsNumber(s) /\ NumberOf(s) >= -180 /\ NumberOf(s) <= 180

\* every city of the gazetteer has its coordinates in range
GazInRange ==
    \A i \in DOMAIN gaz :
        /\ gaz[i].latitude >= -90 /\ gaz[i].latitude <= 90
        /\ gaz[i].longitude >= -180 /\ gaz[i].longitude <= 180

\* C11 as stated: with a gazetteer whose coordinates are all in range, at every
\* point of a run and in the output it writes, a lat of a row is empty, a
\* latitude between -90 and 90, or the lat the row had when the run started
\* (as it was or trimmed), and a lon is empty, a longitude between -180 and 180,
\* or the lon the row had when the run started; so every pair the internal loop or the external
\* fallback wrote is in range.
C11_RangeValidity ==
    (GazInRange /\ pc \in {"geocode", "nominatim", "call", "sleep", "write", "done"}) =>
        /\ DOMAIN rows = DOMAIN csvIn
        /\ \A i \in DOMAIN rows :
              /\ \/ rows[i].lat = <<>>
                 \/ LatInRange(rows[i].lat)
                 \/ rows[i].lat \in {csvIn[i].lat, Strip(csvIn[i].lat)}
              /\ \/ rows[i].lon = <<>>
                 \/ LonInRange(rows[i].lon)
                 \/ rows[i].lon \in {csvIn[i].lon, Strip(csvIn[i].lon)}
        /\ pc = "done" => csvOut = rows

-----------------------------------------------------------------------------
(***************************************************************************)
(* A country with a code and no candidate at any tier (SpecBatch).         *)
(***************************************************************************)
\* the internal loop is at a row without coordinates whose country has a code
\* and for which no tier of _find_coords has a candidate
AtRowWithoutCandidate ==
    /\ pc = "geocode"
    /\ idx <= Len(rows)
    /\ ~HasBoth(rows[idx])
    /\ ResolveIso(rows[idx].country) # <<>>
    /\ FindCity(rows[idx].city, ResolveIso(rows[idx].country),
                AdminOf(rows[idx].state)) = <<>>

\* C12 as stated: when the country of a row resolves to a code and no tier
\* yields a candidate, the step of the internal loop for that row leaves the row
\* unresolved (its lat and lon as they were, trimmed) and the loop goes on to
\* the next row; the batch does not fail.
C12_NoCandidateUnresolved ==
    [][AtRowWithoutCandidate =>
          /\ pc' = "geocode"
          /\ idx' = idx + 1
          /\ rows' = [rows EXCEPT ![idx].lat = Strip(rows[idx].lat),
                                  ![idx].lon = Strip(rows[idx].lon)]]_vars

-----------------------------------------------------------------------------
(***************************************************************************)
(* The entries without admin code of the two city indexes (SpecFind).      *)
(***************************************************************************)
\* the first city of the gazetteer, in iteration order, with the lowercased
\* name and the country of city i
FirstOfName(i) ==
    Min({j \in DOMAIN gaz : /\ Lower(gaz[j].name) = Lower(gaz[i].name)
                            /\ gaz[j].countrycode = gaz[i].countrycode})

\* the first city of the gazetteer with the normalised name and the country of
\* city i
FirstOfNormName(i) ==
    Min({j \in DOMAIN gaz : /\ _normalize(gaz[j].name) = _normalize(gaz[i].name)
                            /\ gaz[j].countrycode = gaz[i].countrycode})

\* C13 as stated: once the indexes are built, for every city of the gazetteer
\* the entry of _city_index for (lowercased name, country, '') is the first city
\* in iteration order with that name and country, and the entry of
\* _city_index_norm for (normalised name, country, '') is the first city with
\* that normalised name and country, whatever the admin codes of the cities.
C13_FirstWriterWins ==
    fpc \in {"ask", "answered"} =>
        \A i \in DOMAIN gaz :
            /\ DictGet(_city_index,
                       <<Lower(gaz[i].name), gaz[i].countrycode, <<>> >>)
                  = <<gaz[FirstOfName(i)]>>
            /\ DictGet(_city_index_norm,
                       <<_normalize(gaz[i].name), gaz[i].countrycode, <<>> >>)
                  = <<gaz[FirstOfNormName(i)]>>

-----------------------------------------------------------------------------
(***************************************************************************)
(* What apply_missing_city_keys changes (SpecBatch).                       *)
(***************************************************************************)
\* the lines of the override file with the trimmed key of row i of the dataset
\* and a lat and a lon that are not empty
EntriesAsText(i) ==
    {k \in DOMAIN missingCsv : /\ KeyOf(missingCsv[k]) = KeyOf(csvOut[i])
                               /\ missingCsv[k].lat # <<>>
                               /\ missingCsv[k].lon # <<>>}

\* the lines of the override file with the trimmed key of row i of the dataset
\* and a lat and a lon that are not empty after trimming
Entries(i) ==
    {k \in DOMAIN missingCsv : /\ KeyOf(missingCsv[k]) = KeyOf(csvOut[i])
                               /\ Strip(missingCsv[k].lat) # <<>>
                               /\ Strip(missingCsv[k].lon) # <<>>}

\* C14 as stated: apply_missing_city_keys changes exactly the rows with an empty
\* lat or lon whose trimmed key has an override entry with a non-empty lat and
\* lon, sets them to the values of that entry, counts them, and leaves every
\* other row and every other field as it was.
C14_ApplyExactAsText ==
    pc = "applied" =>
        /\ DOMAIN manualCsv = DOMAIN csvOut
        /\ \A i \in DOMAIN csvOut :
              IF (csvOut[i].lat = <<>> \/ csvOut[i].lon = <<>>) /\ EntriesAsText(i) # {}
              THEN \E k \in EntriesAsText(i) :
                      manualCsv[i] = [csvOut[i] EXCEPT !.lat = missingCsv[k].lat,
                                                       !.lon = missingCsv[k].lon]
              ELSE manualCsv[i] = csvOut[i]
        /\ applied = Cardinality({i \in DOMAIN csvOut :
                                     /\ csvOut[i].lat = <<>> \/ csvOut[i].lon = <<>>
                                     /\ EntriesAsText(i) # {}})

\* C14, amended: apply_missing_city_keys changes exactly the rows whose lat or
\* lon is empty after trimming and whose trimmed key has an override entry with
\* a lat and a lon that are not empty after trimming; it sets them to the
\* trimmed values of the last such entry of the file, counts them, and leaves
\* every other row and every other field as it was; an entry whose key no row
\* has changes nothing, and the tool runs to its end.
C14_ApplyExact ==
    pc = "applied" =>
        /\ DOMAIN manualCsv = DOMAIN csvOut
        /\ \A i \in DOMAIN csvOut :
              IF ~NonEmptyCoords(csvOut[i]) /\ Entries(i) # {}
              THEN manualCsv[i] =
                      [csvOut[i] EXCEPT !.lat = Strip(missingCsv[Max(Entries(i))].lat),
                                        !.lon = Strip(missingCsv[Max(Entries(i))].lon)]
              ELSE manualCsv[i] = csvOut[i]
        /\ applied = Cardinality({i \in DOMAIN csvOut :
                                     ~NonEmptyCoords(csvOut[i]) /\ Entries(i) # {}})

\* an apply with an override file that has a line of a key no row has: one row
\* was filled, and a row without coordinates whose key has no filled line was
\* left as it was
C14_Witness ==
    /\ pc = "applied"
    /\ applied = 1
    /\ \E k \in DOMAIN missingCsv :
          \A i \in DOMAIN csvOut : KeyOf(missingCsv[k]) # KeyOf(csvOut[i])
    /\ \E i, j \in DOMAIN csvOut :
          /\ manualCsv[i] # csvOut[i]
          /\ NonEmptyCoords(manualCsv[i])
          /\ ~NonEmptyCoords(csvOut[j])
          /\ manualCsv[j] = csvOut[j]

=============================================================================
